---------------------------- MODULE Spec2Model ----------------------------
(***************************************************************************)
(* Supervisor of the WPPConnect sidecar (src-tauri/src/lib.rs).            *)
(*                                                                         *)
(* Tasks of the program, each with its own position:                       *)
(*   - run()'s setup hook (start at launch, then spawns the poll loop),    *)
(*   - health_monitor_loop (one task, owns consecutive_failures),          *)
(*   - one listener task per spawned child (handles Terminated),           *)
(*   - restart_sidecar command invocations (several callers),              *)
(*   - get_sidecar_status command invocations.                             *)
(* They share the atomic SIDECAR_RUNNING.  The tasks run on a              *)
(* multi-threaded runtime, so a task's steps interleave with the others'   *)
(* at every store to SIDECAR_RUNNING and at every await.  A spawn touches  *)
(* no shared state, so it is one step with the load or sleep before it.    *)
(* Stdout/Stderr events only log and are not modelled.                     *)
(***************************************************************************)
EXTENDS Naturals, Sequences, FiniteSets

\* ---- bounds of the model ------------------------------------------------
MaxChildren == 2      \* child processes spawned in one run
MaxTicks == 4         \* iterations of the poll loop in one run

\* ---- program constants --------------------------------------------------
Threshold == 3        \* lib.rs:86  consecutive_failures >= 3

\* The two front-end callers whose restart_sidecar invocations may overlap.
Callers == {"first", "second"}

VARIABLES
    SIDECAR_RUNNING,        \* the AtomicBool (lib.rs:6)
    consecutive_failures,   \* local of health_monitor_loop (lib.rs:55)
    children,               \* sequence of spawned children: "alive" | "terminated"
    events,                 \* sequence of emitted "sidecar-status" payloads
    mainPc,                 \* run(): "setup" | "setup_spawned" | "running"
    loopPc,                 \* "not_spawned" | "sleep" | "spawned" | "probing" | "hung"
    ticks,                  \* iterations the loop has begun
    probe_streak,           \* history: failed loop probes since last true probe / successful start
    restartPc,              \* per caller: "idle" | "grace" | "spawned"
    restartRes,             \* per caller: "none" | "Ok" | "Err" (last return value)
    restartStarts,          \* per caller: start_sidecar calls made by the current/last invocation
    statusPc,               \* "idle" | "probing" | "hung"
    statusIsRunning,        \* local is_running of get_sidecar_status
    statusProbes,           \* health probes issued by the current/last status call
    statusRes               \* last value returned by get_sidecar_status, or NoResult

vars == << SIDECAR_RUNNING, consecutive_failures, children, events, mainPc,
           loopPc, ticks, probe_streak, restartPc, restartRes, restartStarts,
           statusPc, statusIsRunning, statusProbes, statusRes >>

loopVars == << consecutive_failures, events, loopPc, ticks >>
restartVars == << restartPc, restartRes, restartStarts >>
statusVars == << statusPc, statusIsRunning, statusProbes, statusRes >>
mainVars == << mainPc >>

\* Return value of get_sidecar_status: Ok(json!({running, healthy})) (lib.rs:105-108);
\* NoResult while no invocation has returned yet or one is in progress.
Snapshot(running, healthy) == [kind |-> "Ok", running |-> running, healthy |-> healthy]
NoResult == [kind |-> "none", running |-> FALSE, healthy |-> FALSE]

Init ==
    /\ SIDECAR_RUNNING = FALSE
    /\ consecutive_failures = 0
    /\ children = << >>
    /\ events = << >>
    /\ mainPc = "setup"
    /\ loopPc = "not_spawned"
    /\ ticks = 0
    /\ probe_streak = 0
    /\ restartPc = [r \in Callers |-> "idle"]
    /\ restartRes = [r \in Callers |-> "none"]
    /\ restartStarts = [r \in Callers |-> 0]
    /\ statusPc = "idle"
    /\ statusIsRunning = FALSE
    /\ statusProbes = 0
    /\ statusRes = NoResult

\* ---- start_sidecar (lib.rs:17-51) ---------------------------------------
\* sidecar.spawn() succeeded: a new child exists and its listener task is
\* spawned (lib.rs:25-47).  The CommandChild handle is dropped by every
\* caller (Ok(_)), which does not stop the process.
CanSpawn == Len(children) < MaxChildren

start_sidecar_spawn == children' = Append(children, "alive")

\* SIDECAR_RUNNING.store(true) (lib.rs:49)
start_sidecar_store ==
    /\ SIDECAR_RUNNING' = TRUE
    /\ probe_streak' = 0

\* ---- child processes and their listeners (lib.rs:30-47) -----------------
\* A child process exits at a moment the environment chooses; its listener
\* then receives the single CommandEvent::Terminated and stores false
\* (lib.rs:40-43).  The exit itself changes nothing the program reads, so the
\* exit and the handling of its event are one step.
Terminated(c) ==
    /\ children[c] = "alive"
    /\ children' = [children EXCEPT ![c] = "terminated"]
    /\ SIDECAR_RUNNING' = FALSE
    /\ UNCHANGED << probe_streak, loopVars, restartVars, statusVars, mainVars >>

\* ---- run(): start at launch, then spawn the loop (lib.rs:139-150) -------
SetupSpawnOk ==
    /\ mainPc = "setup"
    /\ CanSpawn
    /\ start_sidecar_spawn
    /\ mainPc' = "setup_spawned"
    /\ UNCHANGED << SIDECAR_RUNNING, probe_streak, loopVars, restartVars, statusVars >>

SetupSpawnFail ==
    /\ mainPc = "setup"
    /\ mainPc' = "running"
    /\ loopPc' = "sleep"
    /\ UNCHANGED << SIDECAR_RUNNING, probe_streak, children, consecutive_failures, events,
                    ticks, restartVars, statusVars >>

SetupStore ==
    /\ mainPc = "setup_spawned"
    /\ start_sidecar_store
    /\ mainPc' = "running"
    /\ loopPc' = "sleep"
    /\ UNCHANGED << children, consecutive_failures, events, ticks,
                    restartVars, statusVars >>

\* ---- health_monitor_loop (lib.rs:54-93) ---------------------------------
Emit(e) == events' = Append(events, e)

\* lib.rs:58-63: wake up, load SIDECAR_RUNNING = false, spawn succeeds.  The
\* store(true) of the same start_sidecar call is the separate step below: the
\* new child's listener and the other tasks run in between.
LoopSpawnOk ==
    /\ loopPc = "sleep"
    /\ ticks < MaxTicks
    /\ ~SIDECAR_RUNNING
    /\ CanSpawn
    /\ start_sidecar_spawn
    /\ ticks' = ticks + 1
    /\ loopPc' = "spawned"
    /\ UNCHANGED << SIDECAR_RUNNING, probe_streak, consecutive_failures, events,
                    restartVars, statusVars, mainVars >>

\* lib.rs:49 then 64-68 and 75: store(true), reset, emit "started", continue.
LoopStartStore ==
    /\ loopPc = "spawned"
    /\ start_sidecar_store
    /\ consecutive_failures' = 0
    /\ Emit("started")
    /\ loopPc' = "sleep"
    /\ UNCHANGED << children, ticks, restartVars, statusVars, mainVars >>

\* A loop that gives up starting once the failures reach the threshold.
LoopSpawnFail_GiveUp ==
    /\ loopPc = "sleep"
    /\ ticks < MaxTicks
    /\ ~SIDECAR_RUNNING
    /\ ticks' = ticks + 1
    /\ consecutive_failures' = consecutive_failures + 1
    /\ Emit("error")
    /\ loopPc' = IF consecutive_failures' >= Threshold THEN "stopped" ELSE "sleep"
    /\ UNCHANGED << SIDECAR_RUNNING, probe_streak, children,
                    restartVars, statusVars, mainVars >>

\* lib.rs:58-63, 69-75: load false, start_sidecar fails, count, emit "error".
LoopSpawnFail ==
    /\ loopPc = "sleep"
    /\ ticks < MaxTicks
    /\ ~SIDECAR_RUNNING
    /\ ticks' = ticks + 1
    /\ consecutive_failures' = consecutive_failures + 1
    /\ Emit("error")
    /\ UNCHANGED << SIDECAR_RUNNING, probe_streak, children, loopPc,
                    restartVars, statusVars, mainVars >>

\* ---- check_sidecar_health (lib.rs:9-14) --------------------------------
\* One GET of the health endpoint.  The request resolves to a success status
\* (true), or to a non-success status or a transport error (false).
\* reqwest::get uses a default client, which sets no timeout: a request to an
\* endpoint that accepts the connection and never answers does not resolve,
\* and the task awaiting it stays at the await ("hung").
ProbeResults == BOOLEAN

\* A tick that probes without looking at SIDECAR_RUNNING first.
LoopProbeBegin_NoPriority ==
    /\ loopPc = "sleep"
    /\ ticks < MaxTicks
    /\ ticks' = ticks + 1
    /\ loopPc' = "probing"
    /\ UNCHANGED << SIDECAR_RUNNING, probe_streak, children, consecutive_failures, events,
                    restartVars, statusVars, mainVars >>

\* lib.rs:58-60, 79: load true, issue the health request and await it.
LoopProbeBegin ==
    /\ loopPc = "sleep"
    /\ ticks < MaxTicks
    /\ SIDECAR_RUNNING
    /\ ticks' = ticks + 1
    /\ loopPc' = "probing"
    /\ UNCHANGED << SIDECAR_RUNNING, probe_streak, children, consecutive_failures, events,
                    restartVars, statusVars, mainVars >>

\* lib.rs:79-81: the probe returned true.
LoopProbeOk ==
    /\ loopPc = "probing"
    /\ consecutive_failures' = 0
    /\ probe_streak' = 0
    /\ Emit("healthy")
    /\ loopPc' = "sleep"
    /\ UNCHANGED << SIDECAR_RUNNING, children, ticks, restartVars, statusVars, mainVars >>

\* A threshold branch that announces the restart without storing false.
LoopProbeFail_NoStore ==
    /\ loopPc = "probing"
    /\ consecutive_failures' = consecutive_failures + 1
    /\ probe_streak' = probe_streak + 1
    /\ IF consecutive_failures' >= Threshold
         THEN Emit("restarting")
         ELSE UNCHANGED events
    /\ loopPc' = "sleep"
    /\ UNCHANGED << SIDECAR_RUNNING, children, ticks, restartVars, statusVars, mainVars >>

\* A loop that reports every failed probe as an "error" event.
LoopProbeFail_EmitsError ==
    /\ loopPc = "probing"
    /\ consecutive_failures' = consecutive_failures + 1
    /\ probe_streak' = probe_streak + 1
    /\ IF consecutive_failures' >= Threshold
         THEN /\ SIDECAR_RUNNING' = FALSE
              /\ Emit("restarting")
         ELSE /\ UNCHANGED SIDECAR_RUNNING
              /\ Emit("error")
    /\ loopPc' = "sleep"
    /\ UNCHANGED << children, ticks, restartVars, statusVars, mainVars >>

\* lib.rs:82-91: the probe returned false.
LoopProbeFail ==
    /\ loopPc = "probing"
    /\ consecutive_failures' = consecutive_failures + 1
    /\ probe_streak' = probe_streak + 1
    /\ IF consecutive_failures' >= Threshold
         THEN /\ SIDECAR_RUNNING' = FALSE
              /\ Emit("restarting")
         ELSE UNCHANGED << SIDECAR_RUNNING, events >>
    /\ loopPc' = "sleep"
    /\ UNCHANGED << children, ticks, restartVars, statusVars, mainVars >>

\* lib.rs:10, 79: the endpoint never answers; the loop stays at the await.
LoopProbeHang ==
    /\ loopPc = "probing"
    /\ loopPc' = "hung"
    /\ UNCHANGED << SIDECAR_RUNNING, probe_streak, children, consecutive_failures, events,
                    ticks, restartVars, statusVars, mainVars >>

\* ---- restart_sidecar (lib.rs:113-123) -----------------------------------
\* lib.rs:114-117: store(false), then sleep for the grace period.
RestartBegin(r) ==
    /\ mainPc = "running"
    /\ restartPc[r] = "idle"
    /\ SIDECAR_RUNNING' = FALSE
    /\ restartPc' = [restartPc EXCEPT ![r] = "grace"]
    /\ restartRes' = [restartRes EXCEPT ![r] = "none"]
    /\ restartStarts' = [restartStarts EXCEPT ![r] = 0]
    /\ UNCHANGED << probe_streak, children, loopVars, statusVars, mainVars >>

\* lib.rs:119 with lib.rs:25-47: the spawn succeeded.
RestartSpawnOk(r) ==
    /\ restartPc[r] = "grace"
    /\ CanSpawn
    /\ start_sidecar_spawn
    /\ restartPc' = [restartPc EXCEPT ![r] = "spawned"]
    /\ restartStarts' = [restartStarts EXCEPT ![r] = @ + 1]
    /\ UNCHANGED << SIDECAR_RUNNING, probe_streak, restartRes, loopVars, statusVars, mainVars >>

\* A restart that reports success although the spawn failed.
RestartSpawnFail_SwallowErr(r) ==
    /\ restartPc[r] = "grace"
    /\ restartPc' = [restartPc EXCEPT ![r] = "idle"]
    /\ restartStarts' = [restartStarts EXCEPT ![r] = @ + 1]
    /\ restartRes' = [restartRes EXCEPT ![r] = "Ok"]
    /\ UNCHANGED << SIDECAR_RUNNING, probe_streak, children, loopVars, statusVars, mainVars >>

\* lib.rs:119-121: start_sidecar failed, Err(e) is returned.
RestartSpawnFail(r) ==
    /\ restartPc[r] = "grace"
    /\ restartPc' = [restartPc EXCEPT ![r] = "idle"]
    /\ restartStarts' = [restartStarts EXCEPT ![r] = @ + 1]
    /\ restartRes' = [restartRes EXCEPT ![r] = "Err"]
    /\ UNCHANGED << SIDECAR_RUNNING, probe_streak, children, loopVars, statusVars, mainVars >>

\* A restart that publishes "started" itself.
RestartStore_Emits(r) ==
    /\ restartPc[r] = "spawned"
    /\ start_sidecar_store
    /\ Emit("started")
    /\ restartPc' = [restartPc EXCEPT ![r] = "idle"]
    /\ restartRes' = [restartRes EXCEPT ![r] = "Ok"]
    /\ UNCHANGED << children, restartStarts, consecutive_failures, loopPc, ticks,
                    statusVars, mainVars >>

\* lib.rs:49 then 120: store(true), Ok("Sidecar restarted") is returned.
RestartStore(r) ==
    /\ restartPc[r] = "spawned"
    /\ start_sidecar_store
    /\ restartPc' = [restartPc EXCEPT ![r] = "idle"]
    /\ restartRes' = [restartRes EXCEPT ![r] = "Ok"]
    /\ UNCHANGED << children, restartStarts, loopVars, statusVars, mainVars >>

\* ---- get_sidecar_status (lib.rs:97-109) ---------------------------------
\* A status query that probes whatever is_running holds.
StatusRead_AlwaysProbe ==
    /\ mainPc = "running"
    /\ statusPc = "idle"
    /\ statusIsRunning' = SIDECAR_RUNNING
    /\ statusPc' = "probing"
    /\ statusProbes' = 1
    /\ statusRes' = NoResult
    /\ UNCHANGED << SIDECAR_RUNNING, probe_streak, children, loopVars, restartVars, mainVars >>

\* lib.rs:98-103: load is_running; probe only if it is true.
StatusRead ==
    /\ mainPc = "running"
    /\ statusPc = "idle"
    /\ statusIsRunning' = SIDECAR_RUNNING
    /\ IF SIDECAR_RUNNING
         THEN /\ statusPc' = "probing"
              /\ statusProbes' = 1
              /\ statusRes' = NoResult
         ELSE /\ statusPc' = "idle"
              /\ statusProbes' = 0
              /\ statusRes' = Snapshot(FALSE, FALSE)
    /\ UNCHANGED << SIDECAR_RUNNING, probe_streak, children, loopVars, restartVars, mainVars >>

\* A snapshot whose "running" is loaded again after the probe.
StatusProbeDone_Reload ==
    /\ statusPc = "probing"
    /\ \E is_healthy \in ProbeResults :
          statusRes' = Snapshot(SIDECAR_RUNNING, is_healthy)
    /\ statusPc' = "idle"
    /\ UNCHANGED << SIDECAR_RUNNING, probe_streak, children, statusIsRunning, statusProbes,
                    loopVars, restartVars, mainVars >>

\* A status query whose failed probe is counted in the loop's failure counter.
StatusProbeDone_Counts ==
    /\ statusPc = "probing"
    /\ \E is_healthy \in ProbeResults :
          /\ statusRes' = Snapshot(statusIsRunning, is_healthy)
          /\ consecutive_failures' = IF is_healthy THEN 0 ELSE consecutive_failures + 1
    /\ statusPc' = "idle"
    /\ UNCHANGED << SIDECAR_RUNNING, probe_streak, children, statusIsRunning, statusProbes,
                    events, loopPc, ticks, restartVars, mainVars >>

\* lib.rs:100, 105-108: the probe returned; build the snapshot.
StatusProbeDone ==
    /\ statusPc = "probing"
    /\ \E is_healthy \in ProbeResults :
          statusRes' = Snapshot(statusIsRunning, is_healthy)
    /\ statusPc' = "idle"
    /\ UNCHANGED << SIDECAR_RUNNING, probe_streak, children, statusIsRunning, statusProbes,
                    loopVars, restartVars, mainVars >>

\* lib.rs:10, 100: the endpoint never answers; the command never returns.
StatusProbeHang ==
    /\ statusPc = "probing"
    /\ statusPc' = "hung"
    /\ UNCHANGED << SIDECAR_RUNNING, probe_streak, children, statusIsRunning, statusProbes,
                    statusRes, loopVars, restartVars, mainVars >>

\* ---- the program --------------------------------------------------------
Next ==
    \/ SetupSpawnOk
    \/ SetupSpawnFail
    \/ SetupStore
    \/ \E c \in 1..Len(children) : Terminated(c)
    \/ LoopSpawnOk
    \/ LoopStartStore
    \/ LoopSpawnFail
    \/ LoopProbeBegin
    \/ LoopProbeOk
    \/ LoopProbeFail
    \/ LoopProbeHang
    \/ \E r \in Callers : RestartBegin(r)
    \/ \E r \in Callers : RestartSpawnOk(r)
    \/ \E r \in Callers : RestartSpawnFail(r)
    \/ \E r \in Callers : RestartStore(r)
    \/ StatusRead
    \/ StatusProbeDone
    \/ StatusProbeHang

Spec == Init /\ [][Next]_vars

\* The runtime polls every spawned task that can make progress, so each step
\* of the program's own tasks is taken once it stays enabled.  Nothing is
\* assumed of the environment: child exits, front-end invocations and the
\* health endpoint's answers (or silence) are free.
LoopStep == LoopSpawnOk \/ LoopSpawnFail \/ LoopStartStore \/ LoopProbeBegin
ProbeAnswered == LoopProbeOk \/ LoopProbeFail

FairSpec ==
    /\ Spec
    /\ WF_vars(SetupSpawnOk \/ SetupSpawnFail \/ SetupStore)
    /\ WF_vars(LoopStep)
    /\ WF_vars(ProbeAnswered)
    /\ WF_vars(StatusProbeDone)
    /\ \A r \in Callers : WF_vars(RestartSpawnOk(r) \/ RestartSpawnFail(r) \/ RestartStore(r))

\* ---- vocabulary of the properties ---------------------------------------
Last(seq) == seq[Len(seq)]

\* This step emitted the status event e.
Emitted(e) == events' = Append(events, e)

\* This step is the return of a successful start_sidecar call (its store(true)),
\* made at launch, by the poll loop, or by a restart_sidecar invocation.
SetupStartDone == mainPc = "setup_spawned" /\ mainPc' = "running"
LoopStartDone == loopPc = "spawned" /\ loopPc' = "sleep"
RestartStartDone(r) == restartPc[r] = "spawned" /\ restartPc'[r] = "idle"
SuccessfulStart == SetupStartDone \/ LoopStartDone \/ \E r \in Callers : RestartStartDone(r)

\* This step is a probe of the poll loop returning true / returning false.
LoopProbeTrue == loopPc = "probing" /\ loopPc' = "sleep" /\ probe_streak' = 0
LoopProbeFalse == loopPc = "probing" /\ loopPc' = "sleep" /\ probe_streak' = probe_streak + 1

\* This step handles the Terminated event of child c.
TerminatedHandled(c) == children[c] = "alive" /\ children'[c] = "terminated"

\* The children whose process is live.  The program keeps no handle (every
\* caller drops the CommandChild) and never detaches a listener, so each live
\* child is still one whose termination writes SIDECAR_RUNNING.
LiveChildren == {c \in 1..Len(children) : children[c] = "alive"}

NoRestartInvoked == \A r \in Callers : restartPc[r] = "idle" /\ restartRes[r] = "none"

\* ---- C1 -----------------------------------------------------------------
\* C1 (threshold exactness): a step emits "restarting" if and only if it is a
\* failed loop probe that is exactly the 3rd consecutive failed probe since the
\* last probe that returned true or the last successful start of the child (by
\* the loop, by restart_sidecar, or at launch).
C1_ThresholdExactness ==
    [][ Emitted("restarting") <=> (LoopProbeFalse /\ probe_streak' = Threshold) ]_vars

\* ---- C2 -----------------------------------------------------------------
\* C2 (reset law): every successful start of the child (poll loop, restart_sidecar,
\* launch) and every successful loop probe leaves consecutive_failures = 0; so
\* whenever SIDECAR_RUNNING has just gone from false to true the counter is 0.
C2_ResetLaw ==
    [][ /\ (SuccessfulStart \/ LoopProbeTrue) => consecutive_failures' = 0
        /\ (~SIDECAR_RUNNING /\ SIDECAR_RUNNING') => consecutive_failures' = 0 ]_vars

\* ---- C3 -----------------------------------------------------------------
\* C3 (stale termination events are no-ops): handling the Terminated event of a
\* child after a newer child has been started (its start_sidecar call has
\* returned) does not change SIDECAR_RUNNING.
StartInFlight ==
    \/ mainPc = "setup_spawned"
    \/ loopPc = "spawned"
    \/ \E r \in Callers : restartPc[r] = "spawned"

C3_StaleTerminationNoOp ==
    [][ \A c \in 1..Len(children) :
           (TerminatedHandled(c) /\ c < Len(children) /\ ~StartInFlight)
              => SIDECAR_RUNNING' = SIDECAR_RUNNING ]_vars

\* ---- C4 -----------------------------------------------------------------
\* C4 (idempotent restart): once two restart_sidecar invocations have both
\* returned Ok, exactly one child process is live and canonical as long as no
\* child has exited, and from then on the termination of a superseded (not the
\* newest) child has no effect on SIDECAR_RUNNING.
BothRestartsReturnedOk == \A r \in Callers : restartPc[r] = "idle" /\ restartRes[r] = "Ok"
NoChildExited == \A c \in 1..Len(children) : children[c] = "alive"

C4_IdempotentRestart ==
    /\ [](BothRestartsReturnedOk /\ NoChildExited => Cardinality(LiveChildren) = 1)
    /\ [][ BothRestartsReturnedOk =>
             \A c \in 1..Len(children) :
                (TerminatedHandled(c) /\ c # Len(children))
                   => UNCHANGED SIDECAR_RUNNING ]_vars

\* ---- C5 -----------------------------------------------------------------
\* C5 (loop/restart serialization): when a tick of the poll loop and a
\* restart_sidecar invocation overlap, they do not both spawn a retained child:
\* in a state where both are inside start_sidecar past the spawn, at most one
\* live child is canonical.
LoopAndRestartBothSpawned == loopPc = "spawned" /\ \E r \in Callers : restartPc[r] = "spawned"

C5_LoopRestartSerialized ==
    LoopAndRestartBothSpawned => Cardinality(LiveChildren) <= 1

\* ---- C6 -----------------------------------------------------------------
\* C6 (status honesty): a get_sidecar_status call that read SIDECAR_RUNNING = false
\* returns healthy = false and issued no health probe.
C6_StatusHonesty ==
    /\ (statusRes.kind = "Ok" /\ ~statusRes.running)
          => (~statusRes.healthy /\ statusProbes = 0)
    /\ (statusPc # "idle" \/ statusProbes > 0) => statusIsRunning

C6_Witness == statusRes.kind = "Ok" /\ ~statusRes.running /\ LiveChildren # {}

\* ---- C7 -----------------------------------------------------------------
\* C7 (scenario A): on a fresh launch whose initial start succeeds and whose first
\* health probe returns true (no restart invoked), the emitted events are
\* "started" followed by "healthy".
FirstTickProbedTrue ==
    /\ ticks = 1
    /\ loopPc = "sleep"
    /\ NoRestartInvoked
    /\ events # << >>
    /\ Last(events) = "healthy"

C7_ScenarioA == FirstTickProbedTrue => events = << "started", "healthy" >>

\* ---- C8 -----------------------------------------------------------------
\* C8 (explicit restart contract): restart_sidecar first stores false; it then
\* calls start_sidecar exactly once and returns Ok if and only if that spawn
\* succeeded, Err otherwise; get_sidecar_status never returns an error.
RestartInvoked(r) == restartPc[r] = "idle" /\ restartPc'[r] = "grace"
RestartReturned(r) == restartPc[r] # "idle" /\ restartPc'[r] = "idle"

C8_RestartContract ==
    [][ /\ \A r \in Callers :
             /\ RestartInvoked(r) => (~SIDECAR_RUNNING' /\ restartStarts'[r] = 0)
             /\ RestartReturned(r) =>
                   /\ restartStarts'[r] = 1
                   /\ restartRes'[r] \in {"Ok", "Err"}
                   /\ restartRes'[r] = "Ok" <=> restartPc[r] = "spawned"
        /\ statusRes'.kind \in {"none", "Ok"} ]_vars

C8_Witness ==
    /\ restartRes["first"] = "Ok"
    /\ restartRes["second"] = "Err"
    /\ restartPc["first"] = "idle"
    /\ restartPc["second"] = "idle"

\* ---- C9 -----------------------------------------------------------------
\* C9 (no-hang probe): a health probe always returns, also against an endpoint
\* that never responds: the poll loop that issued a probe reaches its next sleep,
\* and a status query that issued a probe returns.
C9_NoHangProbe ==
    /\ (loopPc = "probing") ~> (loopPc = "sleep")
    /\ (statusPc = "probing") ~> (statusPc = "idle")

\* ---- C10 ----------------------------------------------------------------
\* C10 (snapshot well-formedness): every value get_sidecar_status returns is Ok
\* with a {running, healthy} snapshot in which healthy = true implies
\* running = true, whatever the loop, restarts and listeners did meanwhile.
C10_SnapshotWellFormed ==
    /\ statusRes.kind \in {"none", "Ok"}
    /\ statusRes.healthy => statusRes.running

C10_Witness == statusRes.kind = "Ok" /\ statusRes.healthy /\ ~SIDECAR_RUNNING

\* ---- C11 ----------------------------------------------------------------
\* This step begins a tick of the poll loop; the tick is a start attempt.
TickBegins == ticks' = ticks + 1
StartAttempt == TickBegins /\ (loopPc' = "spawned" \/ Emitted("error"))

\* C11 (spawn-failure retry without gating): a tick whose start fails emits
\* "error", leaves SIDECAR_RUNNING false and the loop ready for its next tick;
\* every tick that loads false is a start attempt, whatever the counter holds;
\* under fair scheduling the loop that found SIDECAR_RUNNING false goes on to
\* its next tick, and a spawn that succeeded is followed by SIDECAR_RUNNING true.
C11_RetryWithoutGating ==
    /\ [][ /\ Emitted("error") =>
                (~SIDECAR_RUNNING /\ ~SIDECAR_RUNNING' /\ loopPc' = "sleep")
           /\ (TickBegins /\ ~SIDECAR_RUNNING) => StartAttempt ]_vars
    /\ \A k \in 0..(MaxTicks - 1) :
          (loopPc = "sleep" /\ ~SIDECAR_RUNNING /\ ticks = k) ~> (ticks > k)
    /\ (loopPc = "spawned") ~> SIDECAR_RUNNING

C11_Witness ==
    /\ events = << "error", "error", "error", "started" >>
    /\ SIDECAR_RUNNING

\* ---- C12 ----------------------------------------------------------------
\* C12 (start takes priority over probing): every tick is either a start attempt
\* or a health probe, never both; a tick that loads SIDECAR_RUNNING = false is a
\* start attempt, issues no probe and emits neither "healthy" nor "restarting".
C12_StartPriority ==
    [][ /\ TickBegins => (StartAttempt <=> loopPc' # "probing")
        /\ TickBegins => (StartAttempt <=> ~SIDECAR_RUNNING)
        /\ (TickBegins /\ loopPc' = "probing") => UNCHANGED << children, events >>
        /\ (loopPc # "probing" /\ loopPc' = "probing") => (TickBegins /\ SIDECAR_RUNNING)
        /\ (Emitted("healthy") \/ Emitted("restarting")) => loopPc = "probing"
        /\ loopPc = "probing" => UNCHANGED ticks ]_vars

C12_Witness == loopPc = "spawned" /\ consecutive_failures > 0 /\ LiveChildren # {}

\* ---- C13 ----------------------------------------------------------------
LastEventIs(e) == events # << >> /\ Last(events) = e

\* The third consecutive failed probe stores false and emits "restarting", which
\* ends the tick.
ThirdFailureRestarts ==
    (LoopProbeFalse /\ probe_streak' = Threshold)
       => (Emitted("restarting") /\ ~SIDECAR_RUNNING' /\ loopPc' = "sleep")

C14_CounterCountsProbesOnly ==
    [][ Emitted("error") => UNCHANGED consecutive_failures ]_vars

\* ---- C15 ----------------------------------------------------------------
\* C15 (silent degradation): a failed probe that leaves consecutive_failures
\* below the threshold emits no event and leaves SIDECAR_RUNNING unchanged; it
\* only adds 1 to the counter.
C15_SilentDegradation ==
    [][ (LoopProbeFalse /\ consecutive_failures' < Threshold)
           => /\ consecutive_failures' = consecutive_failures + 1
              /\ UNCHANGED << events, SIDECAR_RUNNING, children >> ]_vars

C15_Witness ==
    /\ consecutive_failures = 2
    /\ probe_streak = 2
    /\ events = << >>
    /\ SIDECAR_RUNNING
    /\ loopPc = "sleep"

\* ---- C16 ----------------------------------------------------------------
\* This step belongs to a get_sidecar_status invocation.
StatusStep == statusVars' # statusVars

\* C16 (status query is a pure point read): no step of get_sidecar_status, with or
\* without a probe and whatever the probe returns, changes SIDECAR_RUNNING or
\* consecutive_failures or emits a status event.
C16_StatusPureRead ==
    [][ StatusStep => UNCHANGED << SIDECAR_RUNNING, consecutive_failures, events >> ]_vars

C16_Witness ==
    /\ statusRes = Snapshot(TRUE, FALSE)
    /\ consecutive_failures = 0
    /\ loopPc = "probing"
    /\ SIDECAR_RUNNING

\* ---- C17 ----------------------------------------------------------------
\* A child has terminated and nothing has set SIDECAR_RUNNING again.
ChildTerminatedUnrecovered ==
    /\ ~SIDECAR_RUNNING
    /\ \E c \in 1..Len(children) : children[c] = "terminated"

\* C17 (automatic crash recovery): handling a child's Terminated event stores
\* false, once per child; and under fair scheduling every child termination is
\* followed by a new start attempt of the poll loop: while SIDECAR_RUNNING is
\* not set again by someone else, the loop begins another tick (which, loading
\* false, is a start attempt).
C17_CrashRecovery ==
    /\ [][ \A c \in 1..Len(children) :
              /\ TerminatedHandled(c) => ~SIDECAR_RUNNING'
              /\ children[c] = "terminated" => children'[c] = "terminated" ]_vars
    /\ \A k \in 0..(MaxTicks - 1) :
          (ChildTerminatedUnrecovered /\ ticks = k) ~> (ticks > k \/ SIDECAR_RUNNING)

\* ---- C18 ----------------------------------------------------------------
\* C18 (every transition is published): every successful start that makes
\* SIDECAR_RUNNING true (poll loop, restart_sidecar, launch) emits "started", and
\* every change of SIDECAR_RUNNING from true to false made by the supervisor
\* (the loop's threshold branch, restart_sidecar) comes with a status event.
SupervisorStoresFalse ==
    /\ SIDECAR_RUNNING
    /\ ~SIDECAR_RUNNING'
    /\ children' = children

C18_TransitionsPublished ==
    [][ /\ SuccessfulStart => Emitted("started")
        /\ SupervisorStoresFalse => events' # events ]_vars

\* ---- C19 ----------------------------------------------------------------
\* C19 (start vs. own listener): start_sidecar's store(true) is never applied
\* after the Terminated handler of the child it spawned has stored false: no
\* state has SIDECAR_RUNNING = true while every child started so far has
\* terminated and had its event handled.
C19_NoStoreAfterOwnTermination ==
    SIDECAR_RUNNING => LiveChildren # {}

\* ---- C20 ----------------------------------------------------------------
\* This step belongs to the poll-loop task.
LoopTaskStep == loopPc' # loopPc \/ ticks' # ticks

\* C20 (single emission point): only steps of the poll loop emit, one event at a
\* time and at most one per tick; the event is that of the tick's branch
\* ("started" / "error" for a start attempt, "healthy" / "restarting" for a probe).
C20_SingleEmissionPoint ==
    /\ [][ events' # events =>
             /\ loopPc # "not_spawned" /\ LoopTaskStep
             /\ UNCHANGED << restartVars, statusVars, children >>
             /\ \/ Emitted("started") /\ loopPc = "spawned"
                \/ Emitted("error") /\ loopPc = "sleep" /\ TickBegins /\ ~SIDECAR_RUNNING
                \/ Emitted("healthy") /\ loopPc = "probing"
                \/ Emitted("restarting") /\ loopPc = "probing" ]_vars
    /\ [](Len(events) <= ticks)

C20_Witness ==
    /\ Len(events) = ticks
    /\ ticks >= 2
    /\ \E r \in Callers : restartRes[r] = "Ok"
    /\ statusRes.kind = "Ok"
    /\ \E c \in 1..Len(children) : children[c] = "terminated"

=============================================================================
